---- MODULE Spec2Model ----
(***************************************************************************)
(* Admission control, job queue, worker pool and callback delivery of the  *)
(* sync/async API (app/api/sync_endpoint.py, app/api/async_endpoint.py,    *)
(* app/worker/queue_manager.py, app/worker/processor.py,                   *)
(* app/worker/callback.py, app/db/repository.py).                          *)
(*                                                                         *)
(* Every coroutine runs on one asyncio event loop: a step of the model is  *)
(* the code between two suspension points (a Durable Store call, the Work  *)
(* Engine call, a callback POST, a sleep, a blocking queue get).           *)
(* A Durable Store call either commits or raises without effect.           *)
(***************************************************************************)
EXTENDS Integers, Sequences, FiniteSets, TLC

\* ---- settings (app/config.py), scaled down for checking ----
max_sync_concurrency == 1
num_workers == 2
max_queue_size == 2
max_callback_retries == 2
retry_backoff_base == 2
\* number of HTTP requests (request identifiers) that arrive
MaxRequests == 3
\* number of async submissions in the specifications of the worker pool alone
MaxJobs == 2
rate_limit_requests == 2
rate_limit_window_seconds == 2
\* time.time() is read on a grid of TicksPerSecond ticks per second, up to MaxTime
TicksPerSecond == 2
MaxTime == 3
\* number of client addresses, and of check_rate_limit calls per client
MaxClients == 2
MaxChecks == 5

Ids == 1..MaxRequests
Workers == 1..num_workers
Clients == 1..MaxClients

VARIABLES
    pc,               \* pc[r]: position of the HTTP handler of request r
    response,         \* response[r]: what the handler answered
    db,               \* db[r]: the row of table requests with id r
    sync_semaphore,   \* sync_semaphore._value
    queue,            \* queue_manager.queue, oldest first
    total_enqueued,   \* queue_manager.total_enqueued
    total_processed,  \* queue_manager.total_processed
    wpc,              \* wpc[w]: position of worker_loop(w)
    job,              \* job[w]: request_id of the job worker w is processing (0: none)
    attempt,          \* attempt[w]: loop index of deliver_callback
    site,             \* site[w]: which call of deliver_callback is running
    posts,            \* posts[w]: POSTs completed by the running deliver_callback
    sleeps,           \* sleeps[w]: the sleeps of the running deliver_callback, in order
    store_faults,     \* whether a Durable Store call may raise
    cancel_requested, \* cancel_requested[w]: task.cancel() was called on worker w's
                      \* task and CancelledError is not yet thrown into it
    buckets,          \* rate_limiter.buckets: client_ip -> (tokens, last_update)
    now,              \* time.time(), in ticks
    gate,             \* gate[r]: what rate_limit_middleware did with request r
    checks,           \* history: checks[c]: the check_rate_limit calls for client c
    acceptLog,        \* history: <<request_id, enqueue's return value>>, in call order
    dequeueLog,       \* history: <<worker, request_id>>, in dequeue order
    executions,       \* history: executions[r]: calls of do_work for request r
    callbacks         \* history: callbacks[r]: the calls of deliver_callback for r,
                      \* each with the status in its payload and its return value

vars == <<pc, response, db, sync_semaphore, queue, total_enqueued, total_processed,
          wpc, job, attempt, site, posts, sleeps, store_faults, cancel_requested,
          buckets, now, gate, checks,
          acceptLog, dequeueLog, executions, callbacks>>

reqVars == <<pc, response>>
queueVars == <<queue, total_enqueued, total_processed>>
workerVars == <<wpc, job, attempt, site, posts, sleeps>>
histVars == <<acceptLog, dequeueLog, executions>>
rlVars == <<buckets, now, gate, checks>>

\* ---------------------------------------------------------------------
\* Durable Store (app/db/repository.py): one row per request identifier
\* ---------------------------------------------------------------------
NULL == "NULL"

\* no row with this id
NoRow == [mode |-> NULL, status |-> "absent", result |-> NULL, last_error |-> NULL,
          started_at |-> NULL, completed_at |-> NULL, attempts |-> 0]

\* mutant: the INSERT is never committed
create_request_noCommit(conn, request_id, mode) == conn

\* INSERT INTO requests (id, mode, payload, status, ...) VALUES (..., 'pending', ...)
create_request(conn, request_id, mode) ==
    [conn EXCEPT ![request_id] =
        [mode |-> mode, status |-> "pending", result |-> NULL, last_error |-> NULL,
         started_at |-> NULL, completed_at |-> NULL, attempts |-> 0]]

\* UPDATE requests SET status = ?[, started_at = ?][, completed_at = ?] WHERE id = ?
update_request_status(conn, request_id, status, started_at, completed_at) ==
    IF conn[request_id].status = "absent" THEN conn
    ELSE [conn EXCEPT ![request_id] =
            [@ EXCEPT !.status = status,
                      !.started_at = IF started_at # NULL THEN started_at ELSE @,
                      !.completed_at = IF completed_at # NULL THEN completed_at ELSE @]]

\* UPDATE requests SET result = ?, last_error = ? WHERE id = ?
update_request_result(conn, request_id, result, error) ==
    IF conn[request_id].status = "absent" THEN conn
    ELSE [conn EXCEPT ![request_id] = [@ EXCEPT !.result = result, !.last_error = error]]

\* mutant: the counter is raised by the number of POSTs, not by one
increment_callback_attempts_perPost(conn, request_id, error) ==
    IF conn[request_id].status = "absent" THEN conn
    ELSE [conn EXCEPT ![request_id] =
            [@ EXCEPT !.attempts = @ + max_callback_retries, !.last_error = error]]

\* mutant: recording the delivery failure also marks the request failed
increment_callback_attempts_marksFailed(conn, request_id, error) ==
    IF conn[request_id].status = "absent" THEN conn
    ELSE [conn EXCEPT ![request_id] =
            [@ EXCEPT !.attempts = @ + 1, !.last_error = error, !.status = "failed"]]

\* UPDATE requests SET attempts = attempts + 1, last_error = ? WHERE id = ?
increment_callback_attempts(conn, request_id, error) ==
    IF conn[request_id].status = "absent" THEN conn
    ELSE [conn EXCEPT ![request_id] =
            [@ EXCEPT !.attempts = @ + 1, !.last_error = error]]

\* error_msg of the two except branches, and deliver_callback's error
TimeoutMsg == "Work execution timeout"
ErrorMsg == "Work execution error"
DeliveryMsg == "Failed after max_retries attempts"

\* outcomes of asyncio.wait_for(do_work(payload), timeout)
WorkOutcomes == {"result", "TimeoutError", "Exception"}

\* ---------------------------------------------------------------------
\* Job Queue (app/worker/queue_manager.py)
\* ---------------------------------------------------------------------
\* mutant: the capacity test refuses one job too early
full_early(q) == Len(q) >= max_queue_size - 1

\* mutant: the jobs that workers hold and have not finished count as well
full_countsUnfinished(q) ==
    Len(q) + (total_enqueued - total_processed - Len(queue)) >= max_queue_size

\* mutant: the capacity test is off by one, and lets one job too many in
full_offByOne(q) == Len(q) > max_queue_size

\* asyncio.Queue.full(), as put_nowait tests it
full(q) == Len(q) >= max_queue_size

\* mutant: the counter is raised before put_nowait, so also when it raises QueueFull
enqueue_countFirst(q, enq, j) ==
    IF full(q)
    THEN [queue |-> q, total_enqueued |-> enq + 1, ok |-> FALSE]
    ELSE [queue |-> Append(q, j), total_enqueued |-> enq + 1, ok |-> TRUE]

\* QueueManager.enqueue: the new queue, counter and return value
enqueue(q, enq, j) ==
    IF full(q)
    THEN [queue |-> q, total_enqueued |-> enq, ok |-> FALSE]
    ELSE [queue |-> Append(q, j), total_enqueued |-> enq + 1, ok |-> TRUE]

\* mutant: the newest job is taken instead of the oldest
dequeue_lifo(q) == [job |-> q[Len(q)], queue |-> SubSeq(q, 1, Len(q) - 1)]

\* mutant: the job is read but stays in the queue
dequeue_peek(q) == [job |-> Head(q), queue |-> q]

\* QueueManager.dequeue on a non-empty queue: the job returned, and what stays
dequeue(q) == [job |-> Head(q), queue |-> Tail(q)]

\* QueueManager.get_size
get_size == Len(queue)

\* QueueManager.get_metrics
get_metrics ==
    [current_size |-> get_size, max_size |-> max_queue_size,
     total_enqueued |-> total_enqueued, total_processed |-> total_processed]

Min(a, b) == IF a <= b THEN a ELSE b

\* ---------------------------------------------------------------------
\* Rate limiter (app/utils/rate_limiter.py). Token counts are kept in units of
\* 1/TokenUnit token, so that the refill of one tick is a whole number of
\* units: refill_rate = max_tokens / window tokens per second is
\* rate_limit_requests units per tick.
\* ---------------------------------------------------------------------
TokenUnit == rate_limit_window_seconds * TicksPerSecond
max_tokens == rate_limit_requests * TokenUnit
refill_per_tick == rate_limit_requests

\* self.buckets[client_ip]: the defaultdict makes (max_tokens, time.time())
\* for a key it does not hold
bucket_of(b, client_ip, t) ==
    IF client_ip \in DOMAIN b THEN b[client_ip]
    ELSE [tokens |-> max_tokens, last_update |-> t]

\* mutant: the refill is not capped at max_tokens
refill_uncapped(bucket, t) ==
    bucket.tokens + (t - bucket.last_update) * refill_per_tick

\* lines 34-35: min(max_tokens, tokens + time_passed * refill_rate)
refill(bucket, t) ==
    Min(max_tokens, bucket.tokens + (t - bucket.last_update) * refill_per_tick)

\* line 43: int((1 - tokens) / refill_rate), whole seconds; the quotient is
\* positive, so int() is the floor
retry_after(tokens) == (TokenUnit - tokens) \div (TicksPerSecond * refill_per_tick)

\* mutant: a denied check stores the time of the check with the old token count
check_rate_limit_deniedStamps(b, client_ip, t) ==
    LET bucket == bucket_of(b, client_ip, t)
        tokens == refill(bucket, t)
        stored(v) == [c \in DOMAIN b \cup {client_ip} |-> IF c = client_ip THEN v ELSE b[c]]
    IN  IF tokens >= TokenUnit
        THEN [buckets |-> stored([tokens |-> tokens - TokenUnit, last_update |-> t]),
              is_allowed |-> TRUE, retry_after |-> 0]
        ELSE [buckets |-> stored([tokens |-> bucket.tokens, last_update |-> t]),
              is_allowed |-> FALSE, retry_after |-> retry_after(tokens)]

\* mutant: an allowed check leaves the token in the bucket
check_rate_limit_noConsume(b, client_ip, t) ==
    LET bucket == bucket_of(b, client_ip, t)
        tokens == refill(bucket, t)
        stored(v) == [c \in DOMAIN b \cup {client_ip} |-> IF c = client_ip THEN v ELSE b[c]]
    IN  IF tokens >= TokenUnit
        THEN [buckets |-> stored([tokens |-> tokens, last_update |-> t]),
              is_allowed |-> TRUE, retry_after |-> 0]
        ELSE [buckets |-> stored(bucket),
              is_allowed |-> FALSE, retry_after |-> retry_after(tokens)]

\* RateLimiter.check_rate_limit at time t: the buckets afterwards and the
\* pair returned
check_rate_limit(b, client_ip, t) ==
    LET bucket == bucket_of(b, client_ip, t)
        tokens == refill(bucket, t)
        stored(v) == [c \in DOMAIN b \cup {client_ip} |-> IF c = client_ip THEN v ELSE b[c]]
    IN  IF tokens >= TokenUnit
        THEN [buckets |-> stored([tokens |-> tokens - TokenUnit, last_update |-> t]),
              is_allowed |-> TRUE, retry_after |-> 0]
        ELSE [buckets |-> stored(bucket),
              is_allowed |-> FALSE, retry_after |-> retry_after(tokens)]

InitState ==
    /\ pc = [r \in Ids |-> "new"]
    /\ response = [r \in Ids |-> NULL]
    /\ db = [r \in Ids |-> NoRow]
    /\ sync_semaphore = max_sync_concurrency
    /\ queue = <<>>
    /\ total_enqueued = 0
    /\ total_processed = 0
    /\ wpc = [w \in Workers |-> "dequeue"]
    /\ job = [w \in Workers |-> 0]
    /\ attempt = [w \in Workers |-> 0]
    /\ site = [w \in Workers |-> NULL]
    /\ acceptLog = <<>>
    /\ dequeueLog = <<>>
    /\ executions = [r \in Ids |-> 0]
    /\ posts = [w \in Workers |-> 0]
    /\ sleeps = [w \in Workers |-> <<>>]
    /\ callbacks = [r \in Ids |-> <<>>]
    /\ buckets = <<>>
    /\ now = 0
    /\ gate = [r \in Ids |-> "none"]
    /\ checks = [c \in Clients |-> <<>>]
    /\ cancel_requested = [w \in Workers |-> FALSE]

\* the application after startup, with a Durable Store whose calls may raise
Init == InitState /\ store_faults = TRUE

\* the application after startup, with a Durable Store whose calls all commit
InitStoreOk == InitState /\ store_faults = FALSE

\* ---------------------------------------------------------------------
\* Request identifiers (uuid.uuid4()) are fresh: the r-th request to arrive
\* gets identifier r
\* ---------------------------------------------------------------------
Arrives(r) ==
    /\ pc[r] = "new"
    /\ gate[r] = "allowed" \/ \A q \in Ids : q < r => pc[q] # "new"

\* ---------------------------------------------------------------------
\* Sync Admission Gate (app/api/sync_endpoint.py)
\* ---------------------------------------------------------------------
\* handlers suspended inside sync_semaphore.acquire()
SyncWaiters == {r \in Ids : pc[r] = "s_acquire"}

\* asyncio.Semaphore.locked()
locked == sync_semaphore = 0 \/ SyncWaiters # {}

\* mutant: the capacity test is left out
at_capacity_never == FALSE

\* the test of line 32
at_capacity == locked /\ sync_semaphore = 0

\* handlers inside the "async with sync_semaphore" block
SyncPcs == {"s_create", "s_processing", "s_work", "s_result", "s_done",
            "s_timeout_result", "s_timeout_status", "s_error_result", "s_error_status"}
SyncHolders == {r \in Ids : pc[r] \in SyncPcs}

\* mutant: the record is created before the capacity test refuses the request
SyncReject_afterCreate(r) ==
    /\ pc' = [pc EXCEPT ![r] = "closed"]
    /\ response' = [response EXCEPT ![r] = "503"]
    /\ db' = create_request(db, r, "sync")
    /\ UNCHANGED sync_semaphore

\* raise HTTPException(status_code=503)
SyncReject(r) ==
    /\ pc' = [pc EXCEPT ![r] = "closed"]
    /\ response' = [response EXCEPT ![r] = "503"]
    /\ UNCHANGED <<db, sync_semaphore>>

\* __aenter__ of "async with sync_semaphore": acquire() takes a permit at
\* once when the semaphore is not locked, and suspends the caller otherwise
SyncAcquire(r) ==
    /\ IF ~locked
       THEN /\ sync_semaphore' = sync_semaphore - 1
            /\ pc' = [pc EXCEPT ![r] = "s_create"]
       ELSE /\ sync_semaphore' = sync_semaphore
            /\ pc' = [pc EXCEPT ![r] = "s_acquire"]
    /\ UNCHANGED <<db, response>>

\* a POST /sync arrives: the capacity test and the acquire run without suspension
SyncAdmit(r) ==
    /\ Arrives(r)
    /\ IF at_capacity THEN SyncReject(r) ELSE SyncAcquire(r)
    /\ UNCHANGED <<rlVars, store_faults, cancel_requested, callbacks, queueVars, workerVars, histVars>>

\* __aexit__ of "async with sync_semaphore" on a return: release()
SyncReturn(r, status) ==
    /\ pc' = [pc EXCEPT ![r] = "closed"]
    /\ response' = [response EXCEPT ![r] = status]
    /\ sync_semaphore' = sync_semaphore + 1

\* mutant: the permit is not released when an exception leaves the handler
SyncRaise_noRelease(r) ==
    /\ pc' = [pc EXCEPT ![r] = "closed"]
    /\ response' = [response EXCEPT ![r] = "500"]
    /\ sync_semaphore' = sync_semaphore

\* __aexit__ of "async with sync_semaphore" on an exception that leaves the handler
SyncRaise(r) ==
    /\ pc' = [pc EXCEPT ![r] = "closed"]
    /\ response' = [response EXCEPT ![r] = "500"]
    /\ sync_semaphore' = sync_semaphore + 1

SyncGoto(r, to) ==
    /\ pc' = [pc EXCEPT ![r] = to]
    /\ UNCHANGED <<response, sync_semaphore>>

\* lines 43-51: create_request(conn, request_id, "sync", ...)
SyncCreate(r) ==
    /\ pc[r] = "s_create"
    /\ \/ db' = create_request(db, r, "sync") /\ SyncGoto(r, "s_processing")
       \/ store_faults /\ db' = db /\ SyncRaise(r)
    /\ UNCHANGED <<rlVars, store_faults, cancel_requested, callbacks, queueVars, workerVars, histVars>>

\* lines 54-61: update_request_status(conn, request_id, "processing", started_at)
SyncProcessing(r) ==
    /\ pc[r] = "s_processing"
    /\ \/ db' = update_request_status(db, r, "processing", "set", NULL)
          /\ SyncGoto(r, "s_work")
       \/ store_faults /\ db' = db /\ SyncRaise(r)
    /\ UNCHANGED <<rlVars, store_faults, cancel_requested, callbacks, queueVars, workerVars, histVars>>

\* lines 63-68, 90, 111: asyncio.wait_for(do_work(payload), timeout)
SyncWork(r) ==
    /\ pc[r] = "s_work"
    /\ executions' = [executions EXCEPT ![r] = @ + 1]
    /\ \E outcome \in WorkOutcomes :
          SyncGoto(r, CASE outcome = "result" -> "s_result"
                        [] outcome = "TimeoutError" -> "s_timeout_result"
                        [] outcome = "Exception" -> "s_error_result")
    /\ UNCHANGED <<rlVars, store_faults, cancel_requested, callbacks, db, queueVars, workerVars, acceptLog, dequeueLog>>

\* lines 73-74: update_request_result(conn, request_id, result); a fault is
\* caught by "except Exception" (line 111)
SyncResult(r) ==
    /\ pc[r] = "s_result"
    /\ \/ db' = update_request_result(db, r, "set", NULL) /\ SyncGoto(r, "s_done")
       \/ store_faults /\ db' = db /\ SyncGoto(r, "s_error_result")
    /\ UNCHANGED <<rlVars, store_faults, cancel_requested, callbacks, queueVars, workerVars, histVars>>

\* lines 75-88: update_request_status(conn, request_id, "done", completed_at); return
SyncDone(r) ==
    /\ pc[r] = "s_done"
    /\ \/ db' = update_request_status(db, r, "done", NULL, "set") /\ SyncReturn(r, "done")
       \/ store_faults /\ db' = db /\ SyncGoto(r, "s_error_result")
    /\ UNCHANGED <<rlVars, store_faults, cancel_requested, callbacks, queueVars, workerVars, histVars>>

\* lines 91-95: update_request_result(conn, request_id, None, error_msg)
SyncTimeoutResult(r) ==
    /\ pc[r] = "s_timeout_result"
    /\ \/ db' = update_request_result(db, r, NULL, TimeoutMsg)
          /\ SyncGoto(r, "s_timeout_status")
       \/ store_faults /\ db' = db /\ SyncRaise(r)
    /\ UNCHANGED <<rlVars, store_faults, cancel_requested, callbacks, queueVars, workerVars, histVars>>

\* mutant: the timeout branch answers failed without writing the status
SyncTimeoutStatus_noWrite(r) ==
    /\ pc[r] = "s_timeout_status"
    /\ db' = db
    /\ SyncReturn(r, "failed")
    /\ UNCHANGED <<rlVars, store_faults, cancel_requested, callbacks, queueVars, workerVars, histVars>>

\* lines 96-109: update_request_status(conn, request_id, "failed", completed_at); return
SyncTimeoutStatus(r) ==
    /\ pc[r] = "s_timeout_status"
    /\ \/ db' = update_request_status(db, r, "failed", NULL, "set")
          /\ SyncReturn(r, "failed")
       \/ store_faults /\ db' = db /\ SyncRaise(r)
    /\ UNCHANGED <<rlVars, store_faults, cancel_requested, callbacks, queueVars, workerVars, histVars>>

\* lines 112-116: update_request_result(conn, request_id, None, error_msg)
SyncErrorResult(r) ==
    /\ pc[r] = "s_error_result"
    /\ \/ db' = update_request_result(db, r, NULL, ErrorMsg)
          /\ SyncGoto(r, "s_error_status")
       \/ store_faults /\ db' = db /\ SyncRaise(r)
    /\ UNCHANGED <<rlVars, store_faults, cancel_requested, callbacks, queueVars, workerVars, histVars>>

\* lines 117-130: update_request_status(conn, request_id, "failed", completed_at); return
SyncErrorStatus(r) ==
    /\ pc[r] = "s_error_status"
    /\ \/ db' = update_request_status(db, r, "failed", NULL, "set")
          /\ SyncReturn(r, "failed")
       \/ store_faults /\ db' = db /\ SyncRaise(r)
    /\ UNCHANGED <<rlVars, store_faults, cancel_requested, callbacks, queueVars, workerVars, histVars>>

\* ---------------------------------------------------------------------
\* Async admission (app/api/async_endpoint.py)
\* ---------------------------------------------------------------------
\* a POST /async arrives; lines 33-43: create_request(conn, request_id, "async", ...)
AsyncCreate(r) ==
    /\ Arrives(r)
    /\ \/ /\ db' = create_request(db, r, "async")
          /\ pc' = [pc EXCEPT ![r] = "a_enqueue"]
          /\ response' = response
       \/ /\ store_faults /\ db' = db
          /\ pc' = [pc EXCEPT ![r] = "closed"]
          /\ response' = [response EXCEPT ![r] = "500"]
    /\ UNCHANGED <<rlVars, store_faults, cancel_requested, callbacks, sync_semaphore, queueVars, workerVars, histVars>>

\* lines 45-64: queue_manager.enqueue(job); 202 or 429
AsyncEnqueue(r) ==
    /\ pc[r] = "a_enqueue"
    /\ LET e == enqueue(queue, total_enqueued, r) IN
          /\ queue' = e.queue
          /\ total_enqueued' = e.total_enqueued
          /\ response' = [response EXCEPT ![r] = IF e.ok THEN "202" ELSE "429"]
          /\ acceptLog' = Append(acceptLog, <<r, e.ok>>)
    /\ pc' = [pc EXCEPT ![r] = "closed"]
    /\ UNCHANGED <<rlVars, store_faults, cancel_requested, callbacks, db, sync_semaphore, total_processed, workerVars,
                   dequeueLog, executions>>

\* ---------------------------------------------------------------------
\* Worker Pool (app/worker/processor.py) and Callback Delivery
\* (app/worker/callback.py)
\* ---------------------------------------------------------------------
\* a worker owns job[w] from its dequeue until it leaves the loop body
Holding(w) == job[w] # 0

WGoto(w, to) ==
    /\ wpc' = [wpc EXCEPT ![w] = to]
    /\ UNCHANGED <<job, attempt, site, posts, sleeps>>

\* mutant: task_done counts the job twice
task_done_twice(processed) == processed + 2

\* QueueManager.task_done
task_done(processed) == processed + 1

\* the inner "finally" (line 145) after a handled outcome, then the top of the loop
WFinally(w) ==
    /\ total_processed' = task_done(total_processed)
    /\ wpc' = [wpc EXCEPT ![w] = "dequeue"]
    /\ attempt' = [attempt EXCEPT ![w] = 0]
    /\ site' = [site EXCEPT ![w] = NULL]
    /\ posts' = [posts EXCEPT ![w] = 0]
    /\ sleeps' = [sleeps EXCEPT ![w] = <<>>]
    /\ job' = [job EXCEPT ![w] = 0]

\* an exception leaves an except branch: the inner "finally" (line 145), then
\* the outer "except Exception" (lines 147-149)
WFinallyRaise(w) ==
    /\ total_processed' = task_done(total_processed)
    /\ wpc' = [wpc EXCEPT ![w] = "w_sleep"]
    /\ attempt' = [attempt EXCEPT ![w] = 0]
    /\ site' = [site EXCEPT ![w] = NULL]
    /\ posts' = [posts EXCEPT ![w] = 0]
    /\ sleeps' = [sleeps EXCEPT ![w] = <<>>]
    /\ job' = [job EXCEPT ![w] = 0]

\* the "status" of callback_payload at lines 72-79, 109-116 and 133-140
payload_status(from) == IF from = "done" THEN "done" ELSE "failed"

\* the call of deliver_callback at line 81, 118 or 142: attempt = 0
WDeliver(w, from) ==
    /\ wpc' = [wpc EXCEPT ![w] = "cb_post"]
    /\ attempt' = [attempt EXCEPT ![w] = 0]
    /\ site' = [site EXCEPT ![w] = from]
    /\ posts' = [posts EXCEPT ![w] = 0]
    /\ sleeps' = [sleeps EXCEPT ![w] = <<>>]
    /\ job' = job
    /\ callbacks' = [callbacks EXCEPT ![job[w]] =
                        Append(@, [payload |-> payload_status(from), success |-> NULL])]

\* deliver_callback returns (True, None) or (False, error): success is "True"
\* or "False"
CallbackReturns(w, success) ==
    callbacks' = [callbacks EXCEPT ![job[w]][Len(callbacks[job[w]])].success = success]

\* line 29: job = await queue_manager.dequeue(), suspended while the queue is empty
WDequeue(w) ==
    /\ wpc[w] = "dequeue"
    /\ queue # <<>>
    /\ LET d == dequeue(queue) IN
          /\ job' = [job EXCEPT ![w] = d.job]
          /\ queue' = d.queue
          /\ dequeueLog' = Append(dequeueLog, <<w, d.job>>)
    /\ wpc' = [wpc EXCEPT ![w] = "w_processing"]
    /\ UNCHANGED <<rlVars, store_faults, cancel_requested, callbacks, reqVars, db, sync_semaphore, total_enqueued, total_processed,
                   attempt, site, posts, sleeps, acceptLog, executions>>

\* mutant: the worker goes on to the work without marking the record processing
WProcessing_skip(w) ==
    /\ wpc[w] = "w_processing"
    /\ WGoto(w, "w_work")
    /\ UNCHANGED <<rlVars, store_faults, cancel_requested, callbacks, reqVars, db, sync_semaphore, queueVars, histVars>>

\* lines 38-44: update_request_status(conn, request_id, "processing", started_at);
\* a fault is outside the inner try and reaches the outer except
WProcessing(w) ==
    /\ wpc[w] = "w_processing"
    /\ \/ db' = update_request_status(db, job[w], "processing", "set", NULL)
          /\ WGoto(w, "w_work")
       \/ /\ store_faults /\ db' = db
          /\ wpc' = [wpc EXCEPT ![w] = "w_sleep"]
          /\ job' = [job EXCEPT ![w] = 0]
          /\ UNCHANGED <<attempt, site, posts, sleeps>>
    /\ UNCHANGED <<rlVars, store_faults, cancel_requested, callbacks, reqVars, sync_semaphore, queueVars, histVars>>

\* lines 46-54, 96, 120: asyncio.wait_for(do_work(payload), timeout)
WWork(w) ==
    /\ wpc[w] = "w_work"
    /\ executions' = [executions EXCEPT ![job[w]] = @ + 1]
    /\ \E outcome \in WorkOutcomes :
          WGoto(w, CASE outcome = "result" -> "w_get"
                     [] outcome = "TimeoutError" -> "w_timeout_result"
                     [] outcome = "Exception" -> "w_error_result")
    /\ UNCHANGED <<rlVars, store_faults, cancel_requested, callbacks, reqVars, db, sync_semaphore, queueVars,
                   acceptLog, dequeueLog>>

\* lines 57-59: get_request(conn, request_id); a fault is caught at line 120
WGet(w) ==
    /\ wpc[w] = "w_get"
    /\ \/ WGoto(w, "w_result")
       \/ store_faults /\ WGoto(w, "w_error_result")
    /\ UNCHANGED <<rlVars, store_faults, cancel_requested, callbacks, reqVars, db, sync_semaphore, queueVars, histVars>>

\* lines 62-63: update_request_result(conn, request_id, result)
WResult(w) ==
    /\ wpc[w] = "w_result"
    /\ \/ db' = update_request_result(db, job[w], "set", NULL) /\ WGoto(w, "w_done")
       \/ store_faults /\ db' = db /\ WGoto(w, "w_error_result")
    /\ UNCHANGED <<rlVars, store_faults, cancel_requested, callbacks, reqVars, sync_semaphore, queueVars, histVars>>

\* mutant: the "done" callback is sent before the status is written
WDone_deliverFirst(w) ==
    /\ wpc[w] = "w_done"
    /\ db' = db
    /\ WDeliver(w, "done")
    /\ UNCHANGED <<rlVars, store_faults, cancel_requested, reqVars, sync_semaphore, queueVars, histVars>>

\* lines 64-85: update_request_status(conn, request_id, "done", completed_at),
\* then deliver_callback with the "done" payload
WDone(w) ==
    /\ wpc[w] = "w_done"
    /\ \/ db' = update_request_status(db, job[w], "done", NULL, "set")
          /\ WDeliver(w, "done")
       \/ store_faults /\ db' = db /\ WGoto(w, "w_error_result") /\ callbacks' = callbacks
    /\ UNCHANGED <<rlVars, store_faults, cancel_requested, reqVars, sync_semaphore, queueVars, histVars>>

\* mutant: the timeout branch writes the message of the generic branch
WTimeoutResult_errorMsg(w) ==
    /\ wpc[w] = "w_timeout_result"
    /\ db' = update_request_result(db, job[w], NULL, ErrorMsg)
    /\ WGoto(w, "w_timeout_status")
    /\ UNCHANGED <<rlVars, store_faults, cancel_requested, callbacks, reqVars, sync_semaphore, queueVars, histVars>>

\* lines 96-100: update_request_result(conn, request_id, None, error_msg)
WTimeoutResult(w) ==
    /\ wpc[w] = "w_timeout_result"
    /\ \/ /\ db' = update_request_result(db, job[w], NULL, TimeoutMsg)
          /\ WGoto(w, "w_timeout_status")
          /\ total_processed' = total_processed
       \/ store_faults /\ db' = db /\ WFinallyRaise(w)
    /\ UNCHANGED <<rlVars, store_faults, cancel_requested, callbacks, reqVars, sync_semaphore, queue, total_enqueued, histVars>>

\* mutant: the timeout branch sends the callback without writing the status
WTimeoutStatus_noWrite(w) ==
    /\ wpc[w] = "w_timeout_status"
    /\ db' = db
    /\ WDeliver(w, "timeout")
    /\ total_processed' = total_processed
    /\ UNCHANGED <<rlVars, store_faults, cancel_requested, reqVars, sync_semaphore, queue, total_enqueued, histVars>>

\* lines 101-118: update_request_status(conn, request_id, "failed", completed_at),
\* then deliver_callback with the "failed" payload
WTimeoutStatus(w) ==
    /\ wpc[w] = "w_timeout_status"
    /\ \/ /\ db' = update_request_status(db, job[w], "failed", NULL, "set")
          /\ WDeliver(w, "timeout")
          /\ total_processed' = total_processed
       \/ store_faults /\ db' = db /\ WFinallyRaise(w) /\ callbacks' = callbacks
    /\ UNCHANGED <<rlVars, store_faults, cancel_requested, reqVars, sync_semaphore, queue, total_enqueued, histVars>>

\* mutant: the generic branch runs the work again instead of recording the fault
WErrorResult_retry(w) ==
    /\ wpc[w] = "w_error_result"
    /\ WGoto(w, "w_work")
    /\ UNCHANGED <<rlVars, store_faults, cancel_requested, callbacks, reqVars, db, sync_semaphore, queueVars, histVars>>

\* lines 120-124: update_request_result(conn, request_id, None, error_msg)
WErrorResult(w) ==
    /\ wpc[w] = "w_error_result"
    /\ \/ /\ db' = update_request_result(db, job[w], NULL, ErrorMsg)
          /\ WGoto(w, "w_error_status")
          /\ total_processed' = total_processed
       \/ store_faults /\ db' = db /\ WFinallyRaise(w)
    /\ UNCHANGED <<rlVars, store_faults, cancel_requested, callbacks, reqVars, sync_semaphore, queue, total_enqueued, histVars>>

\* lines 125-142: update_request_status(conn, request_id, "failed", completed_at),
\* then deliver_callback with the "failed" payload
WErrorStatus(w) ==
    /\ wpc[w] = "w_error_status"
    /\ \/ /\ db' = update_request_status(db, job[w], "failed", NULL, "set")
          /\ WDeliver(w, "error")
          /\ total_processed' = total_processed
       \/ store_faults /\ db' = db /\ WFinallyRaise(w) /\ callbacks' = callbacks
    /\ UNCHANGED <<rlVars, store_faults, cancel_requested, reqVars, sync_semaphore, queue, total_enqueued, histVars>>

\* mutant: the "return True, None" is missing, the loop goes on after a
\* delivered POST
CallbackPost_noReturn(w) ==
    /\ wpc[w] = "cb_post"
    /\ CallbackReturns(w, "True")
    /\ wpc' = [wpc EXCEPT ![w] = "cb_sleep"]
    /\ posts' = [posts EXCEPT ![w] = @ + 1]
    /\ UNCHANGED <<job, attempt, site, sleeps, total_processed>>
    /\ UNCHANGED <<rlVars, store_faults, cancel_requested, reqVars, db, sync_semaphore, queue, total_enqueued, histVars>>

\* deliver_callback, one pass of "for attempt in range(max_retries)" up to the
\* sleep: the POST answers below 400 (return True, None) or fails; after the
\* last failure it returns (False, error), which only line 87 looks at
CallbackPost(w) ==
    /\ wpc[w] = "cb_post"
    /\ \/ /\ CallbackReturns(w, "True")
          /\ WFinally(w)
       \/ /\ attempt[w] < max_callback_retries - 1
          /\ wpc' = [wpc EXCEPT ![w] = "cb_sleep"]
          /\ posts' = [posts EXCEPT ![w] = @ + 1]
          /\ UNCHANGED <<job, attempt, site, sleeps, total_processed, callbacks>>
       \/ /\ ~(attempt[w] < max_callback_retries - 1)
          /\ CallbackReturns(w, "False")
          /\ IF site[w] = "done"
             THEN WGoto(w, "w_increment") /\ total_processed' = total_processed
             ELSE WFinally(w)
    /\ UNCHANGED <<rlVars, store_faults, cancel_requested, reqVars, db, sync_semaphore, queue, total_enqueued, histVars>>

\* mutant: the backoff grows linearly, backoff_base * attempt
CallbackSleep_linear(w) ==
    /\ wpc[w] = "cb_sleep"
    /\ sleeps' = [sleeps EXCEPT ![w] = Append(@, retry_backoff_base * attempt[w])]
    /\ attempt' = [attempt EXCEPT ![w] = @ + 1]
    /\ wpc' = [wpc EXCEPT ![w] = "cb_post"]
    /\ UNCHANGED <<rlVars, store_faults, cancel_requested, callbacks, reqVars, db, sync_semaphore, queueVars, job, site,
                   posts, histVars>>

\* deliver_callback, line 49-50: asyncio.sleep(backoff_base ** attempt), next pass
CallbackSleep(w) ==
    /\ wpc[w] = "cb_sleep"
    /\ sleeps' = [sleeps EXCEPT ![w] = Append(@, retry_backoff_base ^ attempt[w])]
    /\ attempt' = [attempt EXCEPT ![w] = @ + 1]
    /\ wpc' = [wpc EXCEPT ![w] = "cb_post"]
    /\ UNCHANGED <<rlVars, store_faults, cancel_requested, callbacks, reqVars, db, sync_semaphore, queueVars, job, site,
                   posts, histVars>>

\* lines 87-94: increment_callback_attempts(conn, request_id, error); a fault
\* is inside the inner try and is caught at line 120
WIncrement(w) ==
    /\ wpc[w] = "w_increment"
    /\ \/ db' = increment_callback_attempts(db, job[w], DeliveryMsg) /\ WFinally(w)
       \/ /\ store_faults /\ db' = db
          /\ wpc' = [wpc EXCEPT ![w] = "w_error_result"]
          /\ attempt' = [attempt EXCEPT ![w] = 0]
          /\ site' = [site EXCEPT ![w] = NULL]
          /\ posts' = [posts EXCEPT ![w] = 0]
          /\ sleeps' = [sleeps EXCEPT ![w] = <<>>]
          /\ UNCHANGED <<job, total_processed>>
    /\ UNCHANGED <<rlVars, store_faults, cancel_requested, callbacks, reqVars, sync_semaphore, queue, total_enqueued, histVars>>

\* mutant: the worker task ends after an exception reached the outer except
WSleep_exit(w) ==
    /\ wpc[w] = "w_sleep"
    /\ WGoto(w, "stopped")
    /\ UNCHANGED <<rlVars, store_faults, cancel_requested, callbacks, reqVars, db, sync_semaphore, queueVars, histVars>>

\* line 149: asyncio.sleep(1), then the top of the loop
WSleep(w) ==
    /\ wpc[w] = "w_sleep"
    /\ WGoto(w, "dequeue")
    /\ UNCHANGED <<rlVars, store_faults, cancel_requested, callbacks, reqVars, db, sync_semaphore, queueVars, histVars>>

\* ---------------------------------------------------------------------
\* Shutdown (app/main.py, lifespan): task.cancel() for every worker task, then
\* asyncio.gather. CancelledError is thrown into a task at the await where it
\* is suspended.
\* ---------------------------------------------------------------------
\* positions of worker_loop inside the inner try (lines 46-145)
InnerTryPcs == {"w_work", "w_get", "w_result", "w_done", "w_timeout_result",
                "w_timeout_status", "w_error_result", "w_error_status",
                "cb_post", "cb_sleep", "w_increment"}

\* lines 40-41: "for task in worker_tasks: task.cancel()", no await in between
Shutdown ==
    /\ \A w \in Workers : ~cancel_requested[w] /\ wpc[w] # "exited"
    /\ cancel_requested' = [w \in Workers |-> TRUE]
    /\ UNCHANGED <<rlVars, store_faults, callbacks, reqVars, db, sync_semaphore, queueVars,
                   workerVars, histVars>>

\* the locals of worker_loop(w) and deliver_callback are gone
WLocalsGone(w) ==
    /\ job' = [job EXCEPT ![w] = 0]
    /\ attempt' = [attempt EXCEPT ![w] = 0]
    /\ site' = [site EXCEPT ![w] = NULL]
    /\ posts' = [posts EXCEPT ![w] = 0]
    /\ sleeps' = [sleeps EXCEPT ![w] = <<>>]

\* mutant: the outer handler catches the cancellation as it catches a fault,
\* and the loop goes on after the pause
Cancelled_swallowed(w) ==
    /\ cancel_requested[w]
    /\ cancel_requested' = [cancel_requested EXCEPT ![w] = FALSE]
    /\ total_processed' = (IF wpc[w] \in InnerTryPcs THEN task_done(total_processed)
                           ELSE total_processed)
    /\ wpc' = [wpc EXCEPT ![w] = "w_sleep"]
    /\ WLocalsGone(w)
    /\ UNCHANGED <<rlVars, store_faults, callbacks, reqVars, db, sync_semaphore, queue,
                   total_enqueued, histVars>>

\* CancelledError is raised at the await of worker_loop(w): it is a
\* BaseException, so neither "except asyncio.TimeoutError" (96), "except
\* Exception" (120, 147) nor the handlers of deliver_callback (callback.py
\* 40-45) catch it; inside the inner try the "finally" (144-145) runs; the task
\* ends
Cancelled(w) ==
    /\ cancel_requested[w]
    /\ cancel_requested' = [cancel_requested EXCEPT ![w] = FALSE]
    /\ total_processed' = (IF wpc[w] \in InnerTryPcs THEN task_done(total_processed)
                           ELSE total_processed)
    /\ wpc' = [wpc EXCEPT ![w] = "exited"]
    /\ WLocalsGone(w)
    /\ UNCHANGED <<rlVars, store_faults, callbacks, reqVars, db, sync_semaphore, queue,
                   total_enqueued, histVars>>

\* ---------------------------------------------------------------------
\* Rate limiting at the transport boundary (app/main.py, rate_limit_middleware)
\* ---------------------------------------------------------------------
\* time.time() advances
Tick ==
    /\ now < MaxTime
    /\ now' = now + 1
    /\ UNCHANGED <<buckets, gate, checks, store_faults, cancel_requested, callbacks, reqVars, db, sync_semaphore,
                   queueVars, workerVars, histVars>>

\* what a call of check_rate_limit for request r (0: none) adds to the history
CheckRecord(r, res) ==
    [request |-> r, time |-> now, is_allowed |-> res.is_allowed,
     retry_after |-> res.retry_after]

\* a call of rate_limiter.check_rate_limit(client_ip)
Check(c) ==
    /\ Len(checks[c]) < MaxChecks
    /\ LET res == check_rate_limit(buckets, c, now) IN
          /\ buckets' = res.buckets
          /\ checks' = [checks EXCEPT ![c] = Append(@, CheckRecord(0, res))]
    /\ UNCHANGED <<now, gate, store_faults, cancel_requested, callbacks, reqVars, db, sync_semaphore,
                   queueVars, workerVars, histVars>>

\* mutant: the middleware passes the request on although the check denied it
MiddlewareDecision_passes(r, res) ==
    /\ gate' = [gate EXCEPT ![r] = "allowed"]
    /\ UNCHANGED <<pc, response>>

\* lines 76-91: 429 when the check denied the request, call_next otherwise
MiddlewareDecision(r, res) ==
    IF res.is_allowed
    THEN /\ gate' = [gate EXCEPT ![r] = "allowed"]
         /\ UNCHANGED <<pc, response>>
    ELSE /\ gate' = [gate EXCEPT ![r] = "denied"]
         /\ pc' = [pc EXCEPT ![r] = "closed"]
         /\ response' = [response EXCEPT ![r] = "429"]

\* rate_limit_middleware for the r-th request to arrive: /healthz is passed on
\* unchecked (lines 71-72), any other request is checked for its client
Middleware(r) ==
    /\ gate[r] = "none"
    /\ pc[r] = "new"
    /\ \A q \in Ids : q < r => gate[q] # "none"
    /\ \/ /\ gate' = [gate EXCEPT ![r] = "healthz"]
          /\ pc' = [pc EXCEPT ![r] = "closed"]
          /\ response' = [response EXCEPT ![r] = "200"]
          /\ UNCHANGED <<buckets, checks>>
       \/ \E c \in Clients :
             LET res == check_rate_limit(buckets, c, now) IN
                /\ buckets' = res.buckets
                /\ checks' = [checks EXCEPT ![c] = Append(@, CheckRecord(r, res))]
                /\ MiddlewareDecision(r, res)
    /\ UNCHANGED <<now, store_faults, cancel_requested, callbacks, db, sync_semaphore,
                   queueVars, workerVars, histVars>>

\* ---------------------------------------------------------------------
\* the HTTP handlers
HandlerNext ==
    \/ \E r \in Ids : SyncAdmit(r)
    \/ \E r \in Ids : SyncCreate(r)
    \/ \E r \in Ids : SyncProcessing(r)
    \/ \E r \in Ids : SyncWork(r)
    \/ \E r \in Ids : SyncResult(r)
    \/ \E r \in Ids : SyncDone(r)
    \/ \E r \in Ids : SyncTimeoutResult(r)
    \/ \E r \in Ids : SyncTimeoutStatus(r)
    \/ \E r \in Ids : SyncErrorResult(r)
    \/ \E r \in Ids : SyncErrorStatus(r)
    \/ \E r \in Ids : AsyncCreate(r)
    \/ \E r \in Ids : AsyncEnqueue(r)

\* the passes of worker_loop in which no exception reaches the outer except
WorkerBody ==
    \/ \E w \in Workers : WDequeue(w)
    \/ \E w \in Workers : WProcessing(w)
    \/ \E w \in Workers : WWork(w)
    \/ \E w \in Workers : WGet(w)
    \/ \E w \in Workers : WResult(w)
    \/ \E w \in Workers : WDone(w)
    \/ \E w \in Workers : WTimeoutResult(w)
    \/ \E w \in Workers : WTimeoutStatus(w)
    \/ \E w \in Workers : WErrorResult(w)
    \/ \E w \in Workers : WErrorStatus(w)
    \/ \E w \in Workers : CallbackPost(w)
    \/ \E w \in Workers : CallbackSleep(w)
    \/ \E w \in Workers : WIncrement(w)

\* the worker tasks started by lifespan (app/main.py)
WorkerNext ==
    \/ WorkerBody
    \/ \E w \in Workers : WSleep(w)

Next == HandlerNext \/ WorkerNext

Spec == Init /\ [][Next]_vars

\* the application with no worker task running: the HTTP handlers alone (no
\* worker step reads or writes pc, response or sync_semaphore)
SpecNoWorkers == Init /\ [][HandlerNext]_vars

\* the steps of the handler of request r after its arrival: the event loop
\* resumes a handler whose awaited call has completed
HandlerRun(r) ==
    \/ SyncCreate(r) \/ SyncProcessing(r) \/ SyncWork(r) \/ SyncResult(r) \/ SyncDone(r)
    \/ SyncTimeoutResult(r) \/ SyncTimeoutStatus(r)
    \/ SyncErrorResult(r) \/ SyncErrorStatus(r)
    \/ AsyncEnqueue(r)

\* the HTTP handlers alone, each handler in flight eventually resumed: a store
\* call returns or raises, and asyncio.wait_for ends the Work Engine call
SpecHandlersFair ==
    SpecNoWorkers /\ \A r \in Ids : WF_vars(HandlerRun(r))

\* the rate limiter alone, called for any client at any time
SpecRateLimiter ==
    Init /\ [][Tick \/ \E c \in Clients : Check(c)]_vars

\* the HTTP handlers behind rate_limit_middleware, no worker task running: a
\* request reaches its endpoint when the middleware has passed it on
SpecMiddleware ==
    /\ Init
    /\ [][\/ Tick
          \/ \E r \in Ids : Middleware(r)
          \/ \E r \in Ids : gate[r] = "allowed" /\ SyncAdmit(r)
          \/ \E r \in Ids : gate[r] = "allowed" /\ AsyncCreate(r)
          \/ \E r \in Ids : HandlerRun(r)]_vars

\* the steps of worker_loop(w)
WorkerStep(w) ==
    \/ WDequeue(w) \/ WProcessing(w) \/ WWork(w) \/ WGet(w) \/ WResult(w) \/ WDone(w)
    \/ WTimeoutResult(w) \/ WTimeoutStatus(w) \/ WErrorResult(w) \/ WErrorStatus(w)
    \/ CallbackPost(w) \/ CallbackSleep(w) \/ WIncrement(w) \/ WSleep(w)

\* the async endpoint serving MaxJobs submissions
PoolHandlers ==
    \/ \E r \in 1..MaxJobs : AsyncCreate(r)
    \/ \E r \in 1..MaxJobs : AsyncEnqueue(r)

\* the async endpoint and the worker pool, every worker task scheduled fairly:
\* the event loop resumes a worker whose awaited call, sleep or queue get has
\* completed
SpecPoolFair ==
    /\ Init
    /\ [][PoolHandlers \/ WorkerNext]_vars
    /\ \A w \in Workers : WF_vars(WorkerStep(w))

\* the same with a Durable Store whose calls all commit, so that no exception
\* reaches the outer except of worker_loop
SpecPoolStoreOk ==
    /\ InitStoreOk
    /\ [][PoolHandlers \/ WorkerBody]_vars
    /\ \A w \in Workers : WF_vars(WorkerStep(w))

\* the async endpoint and one worker task: the jobs are processed one after
\* the other (deliver_callback reads and writes its own locals only)
SpecOneWorker ==
    Init /\ [][PoolHandlers \/ WorkerStep(1)]_vars

\* a worker task that is not being cancelled is resumed with the outcome of
\* what it awaited
WorkerRuns(w) == ~cancel_requested[w] /\ WorkerStep(w)

\* the worker pool serving MaxJobs async submissions until the application
\* shuts down; the event loop, which lifespan awaits in asyncio.gather, resumes
\* every task that is being cancelled
ShutdownNext ==
    \/ PoolHandlers
    \/ \E w \in Workers : WorkerRuns(w)
    \/ Shutdown
    \/ \E w \in Workers : Cancelled(w)

SpecShutdown ==
    /\ Init /\ [][ShutdownNext]_vars
    /\ \A w \in Workers : WF_vars(Cancelled(w))

\* ---------------------------------------------------------------------
\* Properties
\* ---------------------------------------------------------------------
Range(f) == {f[i] : i \in DOMAIN f}
Terminal == {"done", "failed"}
AsyncIds == {r \in Ids : db[r].mode = "async"}
\* the workers that have dequeued the job of request r
DequeuedBy(r) == {w \in Workers : <<w, r>> \in Range(dequeueLog)}
\* how many times the job of request r has been dequeued
TimesDequeued(r) == Cardinality({i \in DOMAIN dequeueLog : dequeueLog[i][2] = r})

\* C1: a Request Record's status never moves backwards: a stored record never
\* returns to pending (nor disappears), and a record that is done or failed
\* keeps that status in every later step, store faults in the worker included.
C1_StatusNeverReverts ==
    [][\A r \in Ids :
          /\ db[r].status # "absent" => db'[r].status # "absent"
          /\ db[r].status \in {"processing", "done", "failed"} => db'[r].status # "pending"
          /\ db[r].status \in Terminal => db'[r].status = db[r].status]_vars

\* C2: every job is dequeued by exactly one worker: two workers never hold the
\* same job, no job is dequeued twice, a worker holds only a job it dequeued,
\* and a job that has been dequeued is not in the Job Queue.
C2_DequeuedByOneWorker ==
    /\ \A w1, w2 \in Workers : (w1 # w2 /\ Holding(w1) /\ Holding(w2)) => job[w1] # job[w2]
    /\ \A r \in Ids : TimesDequeued(r) <= 1 /\ Cardinality(DequeuedBy(r)) <= 1
    /\ \A w \in Workers : Holding(w) => <<w, job[w]>> \in Range(dequeueLog)
    /\ \A i \in DOMAIN dequeueLog : dequeueLog[i][2] \notin Range(queue)

\* C2 witness: both workers hold a job at the same time
C2_Witness ==
    /\ \A w \in Workers : Holding(w)
    /\ Len(dequeueLog) >= 2

C4_QueueBoundedEnqueueNonBlocking ==
    /\ get_size >= 0
    /\ get_size <= max_queue_size
    /\ \A r \in Ids : pc[r] = "a_enqueue" => ENABLED AsyncEnqueue(r)
    /\ \A i \in DOMAIN acceptLog :
          /\ pc[acceptLog[i][1]] = "closed"
          /\ response[acceptLog[i][1]] = (IF acceptLog[i][2] THEN "202" ELSE "429")

\* C4 witness: the queue is full again after a job was dequeued and finished
C4_Witness ==
    /\ get_size = max_queue_size
    /\ Len(dequeueLog) > 0
    /\ total_processed > 0

\* C5: an enqueue on a queue that holds max_queue_size jobs returns false and
\* leaves the queue, total_enqueued and total_processed as they were.
C5_EnqueueOnFullChangesNothing ==
    [][\A r \in Ids :
          (pc[r] = "a_enqueue" /\ pc'[r] # pc[r] /\ Len(queue) = max_queue_size) =>
              /\ acceptLog' = Append(acceptLog, <<r, FALSE>>)
              /\ response'[r] = "429"
              /\ queue' = queue
              /\ total_enqueued' = total_enqueued
              /\ total_processed' = total_processed]_vars

\* C5 witness: an enqueue has been refused on a full queue
C5_Witness ==
    /\ \E i \in DOMAIN acceptLog : ~acceptLog[i][2]
    /\ Len(queue) = max_queue_size
    /\ total_enqueued = max_queue_size

\* the request identifiers whose enqueue returned true, in the order of the calls
RECURSIVE Accepted(_)
Accepted(log) ==
    IF log = <<>> THEN <<>>
    ELSE IF log[1][2] THEN <<log[1][1]>> \o Accepted(Tail(log))
    ELSE Accepted(Tail(log))
\* the request identifiers of the dequeued jobs, in the order of the dequeues
DequeuedIds == [i \in DOMAIN dequeueLog |-> dequeueLog[i][2]]

\* C6: with no worker running, the i-th async submission to reach enqueue is
\* accepted exactly when i <= max_queue_size, and after k submissions the
\* metrics report current_size = total_enqueued = min(k, max_queue_size).
C6_FirstQAccepted ==
    /\ \A i \in DOMAIN acceptLog :
          /\ acceptLog[i][2] = (i <= max_queue_size)
          /\ response[acceptLog[i][1]] = (IF i <= max_queue_size THEN "202" ELSE "429")
    /\ get_metrics.current_size = Min(Len(acceptLog), max_queue_size)
    /\ get_metrics.total_enqueued = Min(Len(acceptLog), max_queue_size)
    /\ get_metrics.max_size = max_queue_size

\* C6 witness: max_queue_size + 1 submissions, the last one refused
C6_Witness ==
    /\ Len(acceptLog) = max_queue_size + 1
    /\ ~acceptLog[max_queue_size + 1][2]
    /\ get_metrics.current_size = max_queue_size
    /\ get_metrics.total_enqueued = max_queue_size

\* C7: jobs are dequeued in the order in which their enqueue calls returned
\* true: the dequeued jobs are the first of the accepted ones, in that order,
\* and the queue holds the rest, in that order.
C7_Fifo ==
    Accepted(acceptLog) = DequeuedIds \o queue

\* C7 witness: two jobs accepted in the opposite order of their identifiers
\* were in the queue together and have been dequeued by different workers
C7_Witness ==
    /\ Len(dequeueLog) >= 2
    /\ dequeueLog[1][2] > dequeueLog[2][2]
    /\ dequeueLog[1][1] # dequeueLog[2][1]
    /\ Len(acceptLog) >= 2
    /\ acceptLog[1][2] /\ acceptLog[2][2]
    /\ job[dequeueLog[1][1]] = 0

\* C8: the number of sync requests that hold a permit, and so the number of
\* sync Work Engine executions in progress, is at most max_sync_concurrency,
\* and no sync handler is ever suspended waiting for a permit.
C8_SyncBoundedNoWait ==
    /\ Cardinality(SyncHolders) <= max_sync_concurrency
    /\ Cardinality({r \in Ids : pc[r] = "s_work"}) <= max_sync_concurrency
    /\ sync_semaphore \in 0..max_sync_concurrency
    /\ SyncWaiters = {}
    /\ \A r \in Ids : Arrives(r) => ENABLED SyncAdmit(r)

\* C8 witness: all permits are held, one holder is executing, and a further
\* request has arrived
C8_Witness ==
    /\ Cardinality(SyncHolders) = max_sync_concurrency
    /\ \E r \in Ids : pc[r] = "s_work"
    /\ \E r \in Ids : pc[r] = "closed"

\* a step in which request r arrives at the sync endpoint
SyncArrival(r) ==
    /\ pc[r] = "new"
    /\ pc'[r] \in SyncPcs \cup {"s_acquire"} \/ response'[r] = "503"

\* C9: a sync submission that arrives while max_sync_concurrency permits are
\* held is answered 503 in that step, which changes neither the store nor the
\* permits nor the executions; a request answered 503 has no record and the
\* Work Engine is never invoked for it.
C9_RejectedWithoutEffect ==
    /\ [][\A r \in Ids :
             (SyncArrival(r) /\ Cardinality(SyncHolders) = max_sync_concurrency) =>
                 /\ response'[r] = "503"
                 /\ pc'[r] = "closed"
                 /\ db' = db
                 /\ executions' = executions
                 /\ sync_semaphore' = sync_semaphore
                 /\ SyncHolders' = SyncHolders]_vars
    /\ [](\A r \in Ids :
             response[r] = "503" => db[r] = NoRow /\ executions[r] = 0)

\* C9 witness: a request was answered 503 while the holder of the permit is
\* still executing
C9_Witness ==
    \E r, q \in Ids :
        /\ response[r] = "503"
        /\ q < r
        /\ pc[q] = "s_work"

\* C10: the permits held are exactly those of the sync requests in flight, on
\* every exit path; so when no sync request is in flight no permit is held
\* and the gate admits.
C10_PermitReleasedOnEveryExit ==
    /\ max_sync_concurrency - sync_semaphore = Cardinality(SyncHolders)
    /\ SyncHolders = {} => (sync_semaphore = max_sync_concurrency /\ ~at_capacity)

\* C10 witness: sync requests have left by a store fault (500), by a failed
\* answer and by a done answer, and no permit is held
C10_Witness ==
    /\ SyncHolders = {}
    /\ sync_semaphore = max_sync_concurrency
    /\ \E r \in Ids : response[r] = "500" /\ db[r].mode = "sync"
    /\ \E r \in Ids : response[r] = "failed"
    /\ \E r \in Ids : response[r] = "done"

\* the sync requests that were admitted and whose record was created
SyncIds == {r \in Ids : db[r].mode = "sync"}

\* C11: every admitted sync request eventually ends, and for each Work Engine
\* outcome it ends with an inline answer that equals the stored status: done
\* after a result, failed after a timeout or an exception. The only other end
\* is a step in which a Durable Store call raises outside the try block or
\* inside an except branch (an error answer, no inline status); an inline
\* answer equals the stored status from then on.
C11_SyncAnsweredUnlessStoreFault ==
    /\ \A r \in Ids : (pc[r] \in SyncPcs) ~> (pc[r] = "closed")
    /\ [][\A r \in Ids : (pc[r] \in SyncPcs /\ pc'[r] = "closed") =>
             \/ /\ response'[r] = "500"
                /\ store_faults
                /\ db' = db
                /\ pc[r] \notin {"s_work", "s_result", "s_done"}
             \/ /\ response'[r] = (IF pc[r] = "s_done" THEN "done" ELSE "failed")
                /\ pc[r] \in {"s_done", "s_timeout_status", "s_error_status"}
                /\ db'[r].status = response'[r]]_vars
    /\ [](\A r \in SyncIds : pc[r] = "closed" =>
             /\ response[r] \in Terminal \cup {"500"}
             /\ response[r] \in Terminal => db[r].status = response[r])

\* C11 witness: three sync requests have been answered inline, one done, one
\* failed after a timeout and one failed after an exception
C11_Witness ==
    \E r, q, p \in SyncIds :
        /\ response[r] = "done" /\ db[r].status = "done"
        /\ response[q] = "failed" /\ db[q].last_error = TimeoutMsg
        /\ response[p] = "failed" /\ db[p].last_error = ErrorMsg

\* the record of an execution that timed out
TimedOut(row) ==
    /\ row.status = "failed"
    /\ row.completed_at # NULL
    /\ row.result = NULL
    /\ row.last_error = TimeoutMsg

\* C12: on the sync path and on the worker path the timeout branch is entered
\* from the Work Engine call only, and when its two writes have committed the
\* record is failed with completed_at set, no result and the timeout message;
\* the record stays so in every later step (a failed callback included); the
\* generic branch writes a different message.
C12_TimeoutLeavesFailedRecord ==
    /\ TimeoutMsg # ErrorMsg
    /\ TimeoutMsg # DeliveryMsg
    /\ [][/\ \A r \in Ids :
                /\ (pc'[r] = "s_timeout_result" /\ pc[r] # pc'[r]) => pc[r] = "s_work"
                /\ (pc[r] = "s_timeout_status" /\ response'[r] = "failed")
                      => TimedOut(db'[r])
                /\ (pc[r] = "s_error_status" /\ response'[r] = "failed")
                      => (db'[r].status = "failed" /\ db'[r].last_error = ErrorMsg)
                /\ TimedOut(db[r]) => db'[r] = db[r]
          /\ \A w \in Workers :
                /\ (wpc'[w] = "w_timeout_result" /\ wpc[w] # wpc'[w]) => wpc[w] = "w_work"
                /\ (wpc[w] = "w_timeout_status" /\ wpc'[w] = "cb_post")
                      => TimedOut(db'[job[w]])
                /\ (wpc[w] = "w_error_status" /\ wpc'[w] = "cb_post")
                      => (db'[job[w]].status = "failed" /\ db'[job[w]].last_error = ErrorMsg)
         ]_vars

\* C12 witness: a sync execution and an async execution have timed out, the
\* callback of the async one has failed on every attempt and its worker has
\* moved on; both records are the timeout record
C12_Witness ==
    \E r, q \in Ids :
        /\ db[r].mode = "sync" /\ response[r] = "failed" /\ TimedOut(db[r])
        /\ db[q].mode = "async" /\ TimedOut(db[q])
        /\ callbacks[q] = <<[payload |-> "failed", success |-> "False"]>>
        /\ \A w \in Workers : job[w] # q

\* the call of enqueue for the job of request r returned true
EnqueueAccepted(r) == <<r, TRUE>> \in Range(acceptLog)

\* C13: with the workers scheduled fairly and no Durable Store fault, every
\* job whose enqueue returned true is eventually dequeued (once) and its
\* record eventually is done or failed and stays so, whatever the callback
\* target answers: the record is terminal before the first POST. A worker at
\* its dequeue with a non-empty queue can take a job.
C13_AcceptedJobsComplete ==
    /\ \A r \in Ids : EnqueueAccepted(r) ~> (TimesDequeued(r) = 1)
    /\ \A r \in Ids : EnqueueAccepted(r) ~> [](db[r].status \in Terminal)
    /\ [](\A w \in Workers :
             /\ wpc[w] \in {"cb_post", "cb_sleep"} => db[job[w]].status \in Terminal
             /\ (wpc[w] = "dequeue" /\ queue # <<>>) => ENABLED WDequeue(w))

\* C13 witness: both jobs were accepted and have run to the end, one done and
\* one failed, the callback of one delivered and that of the other not
C13_Witness ==
    /\ \A r \in 1..MaxJobs : EnqueueAccepted(r) /\ db[r].status \in Terminal
    /\ \E r, q \in 1..MaxJobs :
          /\ db[r].status = "done" /\ db[q].status = "failed"
          /\ callbacks[r][1].success = "False"
          /\ callbacks[q][1].success = "True"
    /\ \A w \in Workers : wpc[w] = "dequeue"
    /\ queue = <<>>

\* the positions of worker_loop
WorkerPcs == {"dequeue", "w_processing", "w_work", "w_get", "w_result", "w_done",
              "w_timeout_result", "w_timeout_status", "w_error_result", "w_error_status",
              "cb_post", "cb_sleep", "w_increment", "w_sleep"}

\* C14: no step ends a worker or stalls it: a worker is always at a position
\* of its loop, away from the dequeue it always has a step to take, and with
\* the workers scheduled fairly it eventually is at the dequeue again, after
\* every job outcome and after an exception that reached the outer except.
C14_WorkerReturnsToDequeue ==
    /\ [](\A w \in Workers :
             /\ wpc[w] \in WorkerPcs
             /\ wpc[w] # "dequeue" => ENABLED WorkerStep(w))
    /\ \A w \in Workers : (wpc[w] # "dequeue") ~> (wpc[w] = "dequeue")
    /\ \A w \in Workers : (wpc[w] = "w_sleep") ~> (wpc[w] = "dequeue")

\* C14 witness: a worker is back at the dequeue after a store fault dropped
\* its job at the update to processing, and the other job has ended with its
\* callback undelivered
C14_Witness ==
    \E w \in Workers : \E r, q \in 1..MaxJobs :
        /\ wpc[w] = "dequeue"
        /\ <<w, r>> \in Range(dequeueLog)
        /\ db[r].status = "pending"
        /\ db[q].status \in Terminal
        /\ Len(callbacks[q]) > 0
        /\ callbacks[q][1].success = "False"
        /\ \A v \in Workers : wpc[v] = "dequeue"

\* C15: task_done has been called once for every job that was dequeued and is
\* no longer being processed, in every case, store faults after the dequeue
\* included: total_processed never exceeds the number of dequeues, and equals
\* it whenever every worker is at its dequeue.
C15_TaskDoneOncePerDequeue ==
    /\ total_processed <= Len(dequeueLog)
    /\ (\A w \in Workers : wpc[w] = "dequeue") => total_processed = Len(dequeueLog)

\* the first n backoff sleeps of deliver_callback: backoff_base ** i after the
\* attempt with zero-based index i
Backoffs(n) == [i \in 1..n |-> retry_backoff_base ^ (i - 1)]

\* a step in which the running deliver_callback of worker w returns success
DeliveryReturns(w, success) ==
    /\ wpc[w] = "cb_post"
    /\ callbacks[job[w]][Len(callbacks[job[w]])].success = NULL
    /\ callbacks'[job[w]][Len(callbacks[job[w]])].success = success

\* C16: a deliver_callback whose POSTs all fail returns failure at its
\* max_callback_retries-th POST and not before, having slept after each
\* earlier POST and not after the last one: max_callback_retries - 1 sleeps,
\* the one after the attempt with zero-based index i being backoff_base ^ i.
C16_ExhaustedDelivery ==
    /\ [][\A w \in Workers :
             /\ DeliveryReturns(w, "False") =>
                   /\ posts[w] + 1 = max_callback_retries
                   /\ Len(sleeps[w]) = max_callback_retries - 1
                   /\ sleeps[w] = Backoffs(max_callback_retries - 1)
                   /\ wpc'[w] \notin {"cb_post", "cb_sleep"}
             /\ (wpc[w] = "cb_post" /\ wpc'[w] = "cb_sleep") =>
                   /\ posts'[w] = posts[w] + 1
                   /\ posts'[w] < max_callback_retries
             /\ (wpc[w] = "cb_sleep" /\ wpc'[w] # "cb_sleep") =>
                   /\ wpc'[w] = "cb_post"
                   /\ sleeps'[w] = Append(sleeps[w], retry_backoff_base ^ (posts[w] - 1))
                   /\ posts'[w] = posts[w]]_vars
    /\ [](\A w \in Workers :
             /\ wpc[w] = "cb_post" =>
                   posts[w] < max_callback_retries /\ sleeps[w] = Backoffs(posts[w])
             /\ wpc[w] = "cb_sleep" =>
                   posts[w] < max_callback_retries /\ sleeps[w] = Backoffs(posts[w] - 1))

\* C16 witness: deliver_callback has just returned failure to line 81 after
\* max_callback_retries POSTs and max_callback_retries - 1 sleeps
C16_Witness ==
    \E w \in Workers :
        /\ wpc[w] = "w_increment"
        /\ posts[w] = max_callback_retries - 1
        /\ sleeps[w] = Backoffs(max_callback_retries - 1)
        /\ callbacks[job[w]][1].success = "False"

\* C17: a deliver_callback whose k-th POST is the first answered below 400
\* returns success in the step of that POST: k <= max_callback_retries, the
\* k - 1 earlier POSTs were each followed by its backoff sleep, nothing is
\* recorded as an error, and the worker goes on to the end of the job with no
\* further attempt or sleep.
C17_DeliveredAtAttemptK ==
    [][\A w \in Workers :
          DeliveryReturns(w, "True") =>
              /\ posts[w] + 1 \in 1..max_callback_retries
              /\ attempt[w] = posts[w]
              /\ Len(sleeps[w]) = posts[w]
              /\ sleeps[w] = Backoffs(posts[w])
              /\ wpc'[w] = "dequeue"
              /\ job'[w] = 0
              /\ total_processed' = total_processed + 1
              /\ db' = db]_vars

\* C17 witness: a delivery has succeeded and the record shows no callback
\* failure, while the delivery for the next job is at its second POST
C17_Witness ==
    \E r \in Ids : \E w \in Workers :
        /\ callbacks[r] = <<[payload |-> "done", success |-> "True"]>>
        /\ db[r].attempts = 0
        /\ wpc[w] = "cb_post"
        /\ job[w] # r
        /\ posts[w] = 1
        /\ sleeps[w] = Backoffs(1)

\* the calls of deliver_callback for request r that returned failure
FailedDeliveries(r) == {i \in DOMAIN callbacks[r] : callbacks[r][i].success = "False"}

\* C18: when the worker has finished a job whose callback delivery failed on
\* every attempt, whether the execution ended done or failed, the record's
\* attempts is 1 and its last_error is the delivery error.
C18_DeliveryFailureRecorded ==
    \A r \in Ids :
        (FailedDeliveries(r) # {} /\ \A w \in Workers : job[w] # r) =>
            /\ db[r].attempts = 1
            /\ db[r].last_error = DeliveryMsg

\* C19: the step that records a callback delivery failure adds 1 to attempts
\* and sets last_error to the delivery error, and leaves mode, status, result,
\* started_at and completed_at of the record as they were: the status is the
\* one execution produced and the failed delivery announced, and the record
\* does not change afterwards.
C19_RecordingFailureKeepsExecutionFields ==
    [][\A r \in Ids :
          /\ db'[r].attempts # db[r].attempts =>
                /\ db'[r] = [db[r] EXCEPT !.attempts = @ + 1, !.last_error = DeliveryMsg]
                /\ db'[r].status \in Terminal
                /\ db'[r].status = callbacks[r][Len(callbacks[r])].payload
                /\ callbacks[r][Len(callbacks[r])].success = "False"
                /\ \A q \in Ids \ {r} : db'[q] = db[q]
          /\ db[r].attempts > 0 => db'[r] = db[r]]_vars

\* C19 witness: a delivery failure has been recorded on a done record, which
\* still has its result and its timestamps, and the worker has moved on
C19_Witness ==
    \E r \in Ids :
        /\ db[r].attempts = 1
        /\ db[r].last_error = DeliveryMsg
        /\ db[r].status = "done"
        /\ db[r].result # NULL
        /\ db[r].started_at # NULL /\ db[r].completed_at # NULL
        /\ \A w \in Workers : job[w] # r

\* C20: for every job the worker calls deliver_callback at most once, store
\* faults after the callback included: the target gets at most
\* max_callback_retries POSTs for the job, and never a done payload and a
\* failed payload for the same job.
C20_CallbackDeliveryAtMostOnce ==
    /\ \A r \in Ids : Len(callbacks[r]) <= 1
    /\ \A r \in Ids : \A i, j \in DOMAIN callbacks[r] :
          callbacks[r][i].payload = callbacks[r][j].payload
    /\ \A w \in Workers :
          wpc[w] \in {"cb_post", "cb_sleep"} => posts[w] <= max_callback_retries

\* C21: do_work is called at most once for every request identifier, on the
\* sync path and on the worker path: the call is made for a record that is
\* processing and has not been executed, never for a failed one; and attempts
\* changes only in the step in which a worker records the failed delivery of
\* the job it holds, by 1, so a sync record keeps attempts = 0.
C21_ExecutedAtMostOnce ==
    /\ [](\A r \in Ids :
             /\ executions[r] <= 1
             /\ db[r].mode = "sync" => db[r].attempts = 0)
    /\ [][\A r \in Ids :
             /\ executions'[r] # executions[r] =>
                   /\ executions[r] = 0
                   /\ executions'[r] = 1
                   /\ db[r].status = "processing"
                   /\ db' = db
             /\ db[r].status = "failed" => executions'[r] = executions[r]
             /\ db'[r].attempts # db[r].attempts =>
                   /\ db'[r].attempts = db[r].attempts + 1
                   /\ executions' = executions
                   /\ FailedDeliveries(r) # {}
                   /\ \E w \in Workers : wpc[w] = "w_increment" /\ job[w] = r]_vars

\* C21 witness: a sync execution and an async execution have failed, one by
\* timeout and one by an exception, both handlers of the failure are over,
\* each was executed once, and a third record carries a callback failure
C21_Witness ==
    \E r, q, p \in Ids :
        /\ db[r].mode = "sync" /\ db[r].status = "failed" /\ pc[r] = "closed"
        /\ db[r].last_error = ErrorMsg
        /\ db[q].mode = "async" /\ db[q].status = "failed"
        /\ db[q].last_error = TimeoutMsg
        /\ db[p].attempts = 1
        /\ executions[r] = 1 /\ executions[q] = 1 /\ executions[p] = 1
        /\ \A w \in Workers : wpc[w] = "dequeue"

\* C22: in every state of the store, also between two writes of one handler
\* or worker, a record has a result only if its status is done, and has a
\* last_error only after its execution has been attempted and failed or a
\* callback delivery for it has returned failure.
C22_ResultOnlyIfDone ==
    \A r \in Ids :
        /\ db[r].result # NULL => db[r].status = "done"
        /\ db[r].last_error # NULL => executions[r] >= 1
        /\ db[r].last_error = DeliveryMsg => FailedDeliveries(r) # {}


\* ---------------------------------------------------------------------
\* C23: after any sequence of check_rate_limit calls for any clients at
\* non-decreasing times, every stored bucket holds between 0 and max_tokens
\* tokens, and was last updated no later than the present time. A bucket is
\* stored only by an allowed check (line 39), which takes one token from at
\* most max_tokens, so the stored count is in fact at most max_tokens - 1.
\* (Token counts are exact multiples of 1/TokenUnit here; the rounding of
\* Python floats is not part of the model.)
\* ---------------------------------------------------------------------
C23_TokensInRange ==
    \A c \in DOMAIN buckets :
        /\ 0 <= buckets[c].tokens
        /\ buckets[c].tokens <= max_tokens
        /\ buckets[c].tokens <= max_tokens - TokenUnit
        /\ buckets[c].last_update <= now

\* a bucket that was consumed from, sat idle for longer than it takes to refill
\* it, and was consumed from again: the refill was capped
C23_Witness ==
    \E c \in DOMAIN buckets :
        /\ Len(checks[c]) >= 2
        /\ LET n == Len(checks[c]) IN
              /\ checks[c][n].is_allowed
              /\ checks[c][n - 1].is_allowed
              /\ (checks[c][n].time - checks[c][n - 1].time) * refill_per_tick > TokenUnit
              /\ buckets[c].tokens = max_tokens - TokenUnit


\* ---------------------------------------------------------------------
\* C24: no burst beyond max_tokens. Of the checks a client makes at the time
\* of its first check, exactly the first max_tokens are allowed; and between
\* any two checks of one client, made t seconds apart, the allowed checks
\* number at most max_tokens + t * max_tokens / window_seconds.
\* ---------------------------------------------------------------------
AllowedBetween(c, i, j) ==
    Cardinality({k \in i..j : checks[c][k].is_allowed})

C24_NoBurstBeyondMaxTokens ==
    \A c \in Clients :
        /\ \A i \in 1..Len(checks[c]) :
              checks[c][i].time = checks[c][1].time
                  => (checks[c][i].is_allowed <=> i <= rate_limit_requests)
        /\ \A i \in 1..Len(checks[c]) : \A j \in i..Len(checks[c]) :
              AllowedBetween(c, i, j) * TokenUnit
                  <= max_tokens + (checks[c][j].time - checks[c][i].time) * refill_per_tick

\* a new client was allowed max_tokens checks and denied the next one at the
\* same time, and allowed again later
C24_Witness ==
    \E c \in Clients :
        /\ Len(checks[c]) = rate_limit_requests + 2
        /\ checks[c][rate_limit_requests + 1].time = checks[c][1].time
        /\ ~checks[c][rate_limit_requests + 1].is_allowed
        /\ checks[c][rate_limit_requests + 2].is_allowed


\* ---------------------------------------------------------------------
\* C25: a denied check reports retry_after = ceil((1 - tokens) / refill_rate)
\* whole seconds, never negative, so that the next check of the same client,
\* made retry_after seconds after the denial, is allowed; an allowed check
\* reports 0. (A denied check leaves the bucket as it was, so the token count
\* it saw is the refill of the stored bucket at the time of the check.)
\* The code takes int() of the quotient, not its ceiling: this does not hold.
\* ---------------------------------------------------------------------
Ceiling(a, b) == (a + b - 1) \div b

C25_RetryAfterIsCeiling ==
    \A c \in Clients :
        /\ \A i \in 1..Len(checks[c]) :
              /\ checks[c][i].retry_after >= 0
              /\ checks[c][i].is_allowed => checks[c][i].retry_after = 0
              /\ (/\ ~checks[c][i].is_allowed
                  /\ i < Len(checks[c])
                  /\ checks[c][i + 1].time
                        = checks[c][i].time + checks[c][i].retry_after * TicksPerSecond)
                     => checks[c][i + 1].is_allowed
        /\ LET n == Len(checks[c]) IN
              (n > 0 /\ ~checks[c][n].is_allowed)
                  => checks[c][n].retry_after
                        = Ceiling(TokenUnit - refill(buckets[c], checks[c][n].time),
                                  TicksPerSecond * refill_per_tick)


\* ---------------------------------------------------------------------
\* C26: the rate-limit check runs exactly once per incoming request other than
\* the health probe, and before either admission path: a request is admitted
\* (holds a sync permit, has a Request Record, has a job in the queue, or is
\* past the top of its endpoint) only after its one check allowed it; a
\* request whose check denied it is answered 429 and never acquires a permit,
\* never creates a record and never enqueues a job; and an admitted request
\* takes exactly one token from its client's bucket in the step of its check,
\* no later step of the sync gate or of the queue touching any bucket.
\* ---------------------------------------------------------------------
ChecksOf(r) ==
    {e \in Clients \X (1..MaxChecks) :
        /\ e[2] <= Len(checks[e[1]])
        /\ checks[e[1]][e[2]].request = r}

CheckedAllowed(r) == \E e \in ChecksOf(r) : checks[e[1]][e[2]].is_allowed
CheckedDenied(r) == \E e \in ChecksOf(r) : ~checks[e[1]][e[2]].is_allowed

C26_CheckedOnceBeforeAdmission ==
    /\ [](\A r \in Ids :
            /\ Cardinality(ChecksOf(r)) = (IF gate[r] \in {"allowed", "denied"} THEN 1 ELSE 0)
            /\ (\/ pc[r] \notin {"new", "closed"}
                \/ db[r] # NoRow
                \/ r \in SyncHolders
                \/ r \in Range(queue)
                \/ \E i \in DOMAIN acceptLog : acceptLog[i][1] = r
                \/ response[r] \notin {NULL, "429", "200"}) => CheckedAllowed(r)
            /\ CheckedDenied(r) =>
                  /\ pc[r] = "closed" /\ response[r] = "429"
                  /\ db[r] = NoRow
                  /\ r \notin SyncHolders
                  /\ r \notin Range(queue)
                  /\ \A i \in DOMAIN acceptLog : acceptLog[i][1] # r)
    /\ [][/\ checks' = checks => buckets' = buckets
          /\ \A c \in Clients : checks'[c] # checks[c] =>
                /\ \E r \in Ids :
                      /\ gate[r] = "none" /\ pc[r] = "new"
                      /\ checks'[c] = Append(checks[c], checks'[c][Len(checks'[c])])
                      /\ checks'[c][Len(checks'[c])].request = r
                /\ \A d \in Clients \ {c} :
                      /\ checks'[d] = checks[d]
                      /\ d \in DOMAIN buckets => buckets'[d] = buckets[d]
                /\ db' = db /\ sync_semaphore' = sync_semaphore /\ queue' = queue
                /\ IF checks'[c][Len(checks'[c])].is_allowed
                   THEN buckets'[c].tokens
                           = refill(bucket_of(buckets, c, now), now) - TokenUnit
                   ELSE c \in DOMAIN buckets /\ buckets'[c] = buckets[c]]_vars

\* one request was denied by the rate limiter, and another one, admitted by
\* it, was refused by the sync gate or by the full queue
C26_Witness ==
    \E r, q \in Ids :
        /\ CheckedDenied(r) /\ response[r] = "429"
        /\ CheckedAllowed(q) /\ response[q] \in {"503", "429"}


\* ---------------------------------------------------------------------
\* C27: total_enqueued and total_processed never decrease; total_enqueued
\* grows by exactly 1 in an enqueue that returns true, by 0 in one that
\* returns false, and in no other step; and in every state
\* total_processed + current_size <= total_enqueued.
\* ---------------------------------------------------------------------
C27_CountersMonotone ==
    /\ [](/\ get_metrics.total_processed + get_metrics.current_size
                <= get_metrics.total_enqueued
          /\ total_enqueued = Len(Accepted(acceptLog)))
    /\ [][/\ total_enqueued' >= total_enqueued
          /\ total_processed' >= total_processed
          /\ \A r \in Ids : (pc[r] = "a_enqueue" /\ pc'[r] # pc[r]) =>
                total_enqueued' = total_enqueued + (IF response'[r] = "202" THEN 1 ELSE 0)
          /\ total_enqueued' # total_enqueued =>
                \E r \in Ids : /\ pc[r] = "a_enqueue" /\ pc'[r] = "closed"
                               /\ queue' = Append(queue, r)]_vars

\* both counters have grown, an enqueue was refused, and a worker holds a job
\* that is neither in the buffer nor counted as processed
C27_Witness ==
    /\ total_processed >= 1
    /\ \E i \in DOMAIN acceptLog : ~acceptLog[i][2]
    /\ total_processed + get_size < total_enqueued
    /\ \E w \in Workers : Holding(w)


C29_CallbackAfterTerminalCommit ==
    /\ \A w \in Workers : wpc[w] \in {"cb_post", "cb_sleep"} =>
          /\ Holding(w)
          /\ callbacks[job[w]] # <<>>
          /\ LET sent == callbacks[job[w]][Len(callbacks[job[w]])] IN
                /\ sent.success = NULL
                /\ sent.payload \in Terminal
                /\ db[job[w]].status = sent.payload
                /\ db[job[w]].completed_at # NULL
          /\ site[w] = "done" => db[job[w]].result # NULL
    /\ \A r \in Ids : callbacks[r] # <<>> => db[r].status \in Terminal

\* one worker is about to POST a "done" payload, the other one a "failed" one
C29_Witness ==
    \E w, v \in Workers :
        /\ wpc[w] = "cb_post" /\ posts[w] = 0
        /\ callbacks[job[w]][Len(callbacks[job[w]])].payload = "done"
        /\ wpc[v] = "cb_post" /\ posts[v] = 0
        /\ callbacks[job[v]][Len(callbacks[job[v]])].payload = "failed"


\* ---------------------------------------------------------------------
\* C30: in every state, every async Request Record that is pending has its job
\* in the Job Queue, or held by a worker that has dequeued it and not yet
\* marked it processing (or its submission is still on its way to enqueue).
\* The code leaves pending records without a job: the record of a submission
\* refused with 429, and the record of a job whose worker failed to mark it
\* processing. This does not hold.
\* ---------------------------------------------------------------------
C30_PendingHasJob ==
    \A r \in Ids : (db[r].mode = "async" /\ db[r].status = "pending") =>
        \/ pc[r] = "a_enqueue"
        \/ r \in Range(queue)
        \/ \E w \in Workers : job[w] = r /\ wpc[w] = "w_processing"


\* ---------------------------------------------------------------------
\* C31: every job that is in the Job Queue or held by a worker has a Request
\* Record, committed with status pending before the job was enqueued: a job in
\* the queue, or held by a worker that has not yet marked it, has a pending
\* async record, a job held later has a record that is no longer absent, and
\* the step that enqueues a job finds its record pending. So the worker's
\* first write, pending to processing, applies to an existing record.
\* ---------------------------------------------------------------------
C31_JobHasPendingRecordFirst ==
    /\ [](/\ \A i \in DOMAIN queue :
                db[queue[i]].mode = "async" /\ db[queue[i]].status = "pending"
          /\ \A w \in Workers : Holding(w) =>
                /\ db[job[w]].mode = "async"
                /\ db[job[w]].status # "absent"
                /\ wpc[w] = "w_processing" => db[job[w]].status = "pending")
    /\ [][/\ \A r \in Ids : (Len(queue') > Len(queue) /\ queue'[Len(queue')] = r) =>
                /\ db[r].status = "pending" /\ db[r].mode = "async"
                /\ db' = db
          /\ \A w \in Workers : (wpc[w] = "w_processing" /\ wpc'[w] = "w_work") =>
                /\ db[job[w]].status = "pending"
                /\ db'[job[w]].status = "processing"]_vars

\* a worker has marked a job it dequeued processing while another job waits
\* in the queue
C31_Witness ==
    /\ \E w \in Workers : wpc[w] = "w_work" /\ db[job[w]].status = "processing"
    /\ queue # <<>>


\* ---------------------------------------------------------------------
\* C32: in every state every Request Record has attempts 0 or 1; a sync
\* record's attempts is 0; and an async record's attempts is 1 only if
\* deliver_callback was called once for it, with the "done" payload, and
\* returned failure after all max_callback_retries attempts: the record is
\* done and its last_error is the delivery error.
\* ---------------------------------------------------------------------
C32_AttemptsZeroOrOne ==
    \A r \in Ids :
        /\ db[r].attempts \in {0, 1}
        /\ db[r].mode # "async" => db[r].attempts = 0
        /\ db[r].attempts = 1 =>
              /\ Len(callbacks[r]) = 1
              /\ FailedDeliveries(r) = {1}
              /\ callbacks[r][1].payload = "done"
              /\ db[r].status = "done"
              /\ db[r].last_error = DeliveryMsg

\* one async record has attempts 1 after an exhausted delivery, another async
\* record was delivered and has attempts 0, and a sync record is done
C32_Witness ==
    \E r, q, s \in Ids :
        /\ db[r].mode = "async" /\ db[r].attempts = 1
        /\ db[q].mode = "async" /\ db[q].attempts = 0
        /\ callbacks[q] # <<>> /\ callbacks[q][1].success = "True"
        /\ db[s].mode = "sync" /\ db[s].status = "done"


\* ---------------------------------------------------------------------
\* C33: a denied check_rate_limit call leaves the client's stored bucket,
\* token count and last-update timestamp, unchanged. So tokens accrue from the
\* time of the last allowed check: the stored bucket, and the outcome of every
\* check, are those obtained by replaying the client's allowed checks alone,
\* and denied checks cannot postpone the time at which the client is next
\* allowed.
\* ---------------------------------------------------------------------
\* the buckets after the allowed ones among the first n checks of client c
RECURSIVE AllowedOnly(_, _)
AllowedOnly(c, n) ==
    IF n = 0 THEN <<>>
    ELSE LET before == AllowedOnly(c, n - 1)
             t == checks[c][n].time
         IN  IF checks[c][n].is_allowed
             THEN [d \in {c} |->
                      [tokens |-> refill(bucket_of(before, c, t), t) - TokenUnit,
                       last_update |-> t]]
             ELSE before

C33_DeniedCheckChangesNothing ==
    /\ [](\A c \in Clients :
            /\ c \in DOMAIN buckets => /\ c \in DOMAIN AllowedOnly(c, Len(checks[c]))
                                       /\ buckets[c] = AllowedOnly(c, Len(checks[c]))[c]
            /\ \A i \in 1..Len(checks[c]) :
                  checks[c][i].is_allowed
                     <=> refill(bucket_of(AllowedOnly(c, i - 1), c, checks[c][i].time),
                                checks[c][i].time) >= TokenUnit)
    /\ [][\A c \in Clients :
            (Len(checks'[c]) > Len(checks[c]) /\ ~checks'[c][Len(checks'[c])].is_allowed)
                => c \in DOMAIN buckets /\ buckets' = buckets]_vars

\* a client was denied twice, at two different times, and then allowed as
\* soon as one token had accrued since its last allowed check
C33_Witness ==
    \E c \in Clients : \E i \in 1..Len(checks[c]) :
        /\ i + 3 <= Len(checks[c])
        /\ checks[c][i].is_allowed
        /\ ~checks[c][i + 1].is_allowed
        /\ ~checks[c][i + 2].is_allowed
        /\ checks[c][i + 2].time > checks[c][i + 1].time
        /\ checks[c][i + 3].is_allowed
        /\ AllowedOnly(c, i)[c].tokens
              + (checks[c][i + 3].time - checks[c][i].time) * refill_per_tick = TokenUnit


\* ---------------------------------------------------------------------
\* C34: at shutdown every worker task that has been cancelled eventually
\* terminates, whatever it was doing: blocked in dequeue, about to mark a job,
\* executing work, writing a result, inside a callback attempt or a backoff
\* sleep, or in the pause after a loop fault. The step that takes the
\* cancellation ends the task, no handler catching it to resume the loop: the
\* step writes nothing to the Durable Store, leaves the queue as it was, and
\* counts the job as processed exactly when the task was inside the inner try.
\* A task that has ended stays ended.
\* ---------------------------------------------------------------------
C34_CancelledWorkersTerminate ==
    /\ \A w \in Workers : cancel_requested[w] ~> (wpc[w] = "exited")
    /\ [][\A w \in Workers :
            /\ wpc[w] = "exited" => wpc'[w] = "exited" /\ ~cancel_requested'[w]
            /\ (cancel_requested[w] /\ (wpc'[w] # wpc[w] \/ ~cancel_requested'[w])) =>
                  /\ wpc'[w] = "exited" /\ ~cancel_requested'[w]
                  /\ db' = db /\ queue' = queue /\ total_enqueued' = total_enqueued
                  /\ total_processed' = total_processed
                        + (IF wpc[w] \in InnerTryPcs THEN 1 ELSE 0)]_vars

\* both worker tasks have ended: one was cancelled while it executed a job,
\* whose record stays processing, the other inside deliver_callback, which
\* never returned
C34_Witness ==
    /\ \A w \in Workers : wpc[w] = "exited"
    /\ \E r, q \in Ids :
          /\ db[r].status = "processing" /\ callbacks[r] = <<>>
          /\ callbacks[q] # <<>> /\ callbacks[q][Len(callbacks[q])].success = NULL

====
